---- MODULE Spec2Model ----
(***************************************************************************)
(* Model of crypto-lib's chain modules: the SLIP-10 Ed25519 deriver and    *)
(* its path parser (solana/mod.rs, sui/mod.rs), the Bech32 codec           *)
(* (cosmos/mod.rs, sui/mod.rs), the Cosmos account's address methods and   *)
(* the Solana and Sui accounts with their constructors and exports.        *)
(*                                                                         *)
(* Strings are sequences of one-character strings.  A Rust u32 that can    *)
(* exceed 2^31 - 1 is a pair <<hi, lo>> of 16-bit limbs (value             *)
(* hi * 65536 + lo), because the checker's integers are 32-bit signed.     *)
(***************************************************************************)
EXTENDS Integers, Sequences, FiniteSets, TLC

VARIABLES
    \* derive_ed25519_private_key(seed, path): one call in progress
    seed, path, pc, parsed, indices, key, chain_code, pos, child_call, result,
    \* encode_bech32(hrp, data): one call in progress
    hrp, data, epc, bits, checksum, encoded,
    \* one CosmosAccount and the addresses its methods have returned
    account, addrs,
    \* one SolanaAccount, one SuiAccount, what the last method call returned
    solana_account, sui_account, returned,
    \* from_seed_with_path calls in progress, each with its own locals
    calls

vars == <<seed, path, pc, parsed, indices, key, chain_code, pos, child_call, result,
          hrp, data, epc, bits, checksum, encoded, account, addrs,
          solana_account, sui_account, returned, calls>>

slipVars == <<seed, path, pc, parsed, indices, key, chain_code, pos, child_call, result>>
bechVars == <<hrp, data, epc, bits, checksum, encoded>>
cosmosVars == <<account, addrs>>
acctVars == <<solana_account, sui_account, returned>>
callVars == <<calls>>

-----------------------------------------------------------------------------
(* Bounds of the model.                                                    *)

\* most segments after the leading marker in a generated path
MaxSegs == 2
\* longest generated payload, in bytes (5 and more overflow the accumulator)
MaxData == 5
\* most address calls made on one account
MaxCalls == 2

-----------------------------------------------------------------------------
(* Strings and bytes.                                                      *)

Chars(s) == [i \in 1..Len(s) |-> SubSeq(s, i, i)]

\* 2^n for 0 <= n <= 30
Pow2Table ==
    <<1, 2, 4, 8, 16, 32, 64, 128, 256, 512, 1024, 2048, 4096, 8192, 16384,
      32768, 65536, 131072, 262144, 524288, 1048576, 2097152, 4194304,
      8388608, 16777216, 33554432, 67108864, 134217728, 268435456,
      536870912, 1073741824>>
Pow2(n) == Pow2Table[n + 1]

\* bit i of a
Bit(a, i) == (a \div Pow2(i)) % 2

\* Rust's |, & and ^ on the five bits a, b in 0..31
Or5Bits(a, b) ==
    (IF Bit(a, 0) + Bit(b, 0) > 0 THEN 1 ELSE 0)
    + (IF Bit(a, 1) + Bit(b, 1) > 0 THEN 2 ELSE 0)
    + (IF Bit(a, 2) + Bit(b, 2) > 0 THEN 4 ELSE 0)
    + (IF Bit(a, 3) + Bit(b, 3) > 0 THEN 8 ELSE 0)
    + (IF Bit(a, 4) + Bit(b, 4) > 0 THEN 16 ELSE 0)
And5Bits(a, b) ==
    (IF Bit(a, 0) + Bit(b, 0) = 2 THEN 1 ELSE 0)
    + (IF Bit(a, 1) + Bit(b, 1) = 2 THEN 2 ELSE 0)
    + (IF Bit(a, 2) + Bit(b, 2) = 2 THEN 4 ELSE 0)
    + (IF Bit(a, 3) + Bit(b, 3) = 2 THEN 8 ELSE 0)
    + (IF Bit(a, 4) + Bit(b, 4) = 2 THEN 16 ELSE 0)
Xor5Bits(a, b) ==
    (IF Bit(a, 0) + Bit(b, 0) = 1 THEN 1 ELSE 0)
    + (IF Bit(a, 1) + Bit(b, 1) = 1 THEN 2 ELSE 0)
    + (IF Bit(a, 2) + Bit(b, 2) = 1 THEN 4 ELSE 0)
    + (IF Bit(a, 3) + Bit(b, 3) = 1 THEN 8 ELSE 0)
    + (IF Bit(a, 4) + Bit(b, 4) = 1 THEN 16 ELSE 0)

\* the same three operations, tabulated once
Or5Table == [a \in 0..31 |-> [b \in 0..31 |-> Or5Bits(a, b)]]
And5Table == [a \in 0..31 |-> [b \in 0..31 |-> And5Bits(a, b)]]
Xor5Table == [a \in 0..31 |-> [b \in 0..31 |-> Xor5Bits(a, b)]]
Or5(a, b) == Or5Table[a][b]
And5(a, b) == And5Table[a][b]
Xor5(a, b) == Xor5Table[a][b]

\* five bits of a, from bit 5 * j
Chunk(a, j) == (a \div Pow2(5 * j)) % 32

\* Rust's |, & and ^ on integers in 0 .. 2^30 - 1, five bits at a time
BitOr(a, b) ==
    Or5(Chunk(a, 0), Chunk(b, 0))
    + 32 * Or5(Chunk(a, 1), Chunk(b, 1))
    + 1024 * Or5(Chunk(a, 2), Chunk(b, 2))
    + 32768 * Or5(Chunk(a, 3), Chunk(b, 3))
    + 1048576 * Or5(Chunk(a, 4), Chunk(b, 4))
    + 33554432 * Or5(Chunk(a, 5), Chunk(b, 5))
BitAnd(a, b) ==
    And5(Chunk(a, 0), Chunk(b, 0))
    + 32 * And5(Chunk(a, 1), Chunk(b, 1))
    + 1024 * And5(Chunk(a, 2), Chunk(b, 2))
    + 32768 * And5(Chunk(a, 3), Chunk(b, 3))
    + 1048576 * And5(Chunk(a, 4), Chunk(b, 4))
    + 33554432 * And5(Chunk(a, 5), Chunk(b, 5))
BitXor(a, b) ==
    Xor5(Chunk(a, 0), Chunk(b, 0))
    + 32 * Xor5(Chunk(a, 1), Chunk(b, 1))
    + 1024 * Xor5(Chunk(a, 2), Chunk(b, 2))
    + 32768 * Xor5(Chunk(a, 3), Chunk(b, 3))
    + 1048576 * Xor5(Chunk(a, 4), Chunk(b, 4))
    + 33554432 * Xor5(Chunk(a, 5), Chunk(b, 5))

\* u32 as <<hi, lo>>, both limbs in 0..65535
U32(n) == <<n \div 65536, n % 65536>>
u32_or(x, y) == <<BitOr(x[1], y[1]), BitOr(x[2], y[2])>>
u32_and(x, y) == <<BitAnd(x[1], y[1]), BitAnd(x[2], y[2])>>
\* x << n and x >> n for 0 <= n < 16; the bits shifted out at the top are lost
u32_shl(x, n) ==
    LET lo == x[2] * Pow2(n)
    IN  <<(x[1] * Pow2(n) + lo \div 65536) % 65536, lo % 65536>>
u32_shr(x, n) ==
    <<x[1] \div Pow2(n), (x[2] \div Pow2(n)) + (x[1] % Pow2(n)) * Pow2(16 - n)>>
\* u32::to_be_bytes
to_be_bytes(x) == <<x[1] \div 256, x[1] % 256, x[2] \div 256, x[2] % 256>>

WhiteSpace == {" ", "\t", "\n"}
Digits == <<"0", "1", "2", "3", "4", "5", "6", "7", "8", "9">>
IsDigit(c) == \E d \in 1..10 : Digits[d] = c
DigitVal(c) == (CHOOSE d \in 1..10 : Digits[d] = c) - 1

-----------------------------------------------------------------------------
(* Path parser: parse_slip10_path.                                         *)

\* Result<T, String>
Ok(v) == [ok |-> TRUE, val |-> v, err |-> <<>>]
Err(e) == [ok |-> FALSE, val |-> <<>>, err |-> e]
ErrStart == <<"must start with m">>
ErrIndex(part) == <<"invalid index", part>>

\* str::trim: whitespace removed at both ends
RECURSIVE trim_start(_)
trim_start(s) ==
    IF s # <<>> /\ Head(s) \in WhiteSpace THEN trim_start(Tail(s)) ELSE s
RECURSIVE trim_end(_)
trim_end(s) ==
    IF s # <<>> /\ s[Len(s)] \in WhiteSpace
    THEN trim_end(SubSeq(s, 1, Len(s) - 1)) ELSE s
trim(s) == trim_end(trim_start(s))

starts_with(s, c) == s # <<>> /\ Head(s) = c

\* str::split(sep): the pieces between separators, empty pieces included
RECURSIVE split(_, _)
split(s, sep) ==
    IF \E i \in 1..Len(s) : s[i] = sep
    THEN LET i == CHOOSE j \in 1..Len(s) :
                      s[j] = sep /\ \A k \in 1..(j - 1) : s[k] # sep
         IN  <<SubSeq(s, 1, i - 1)>> \o split(SubSeq(s, i + 1, Len(s)), sep)
    ELSE <<s>>

\* str::trim_end_matches(c): every trailing c is removed, not only one
RECURSIVE trim_end_matches(_, _)
trim_end_matches(s, c) ==
    IF s # <<>> /\ s[Len(s)] = c
    THEN trim_end_matches(SubSeq(s, 1, Len(s) - 1), c) ELSE s

\* no u32: a failed parse (<<>> is not a limb pair)
NoU32 == <<>>

\* one digit of u32::from_str: acc * 10 + d, checked; NoU32 past 2^32 - 1
u32_push_digit(acc, d) ==
    IF acc = NoU32 THEN NoU32
    ELSE LET lo10 == acc[2] * 10 + d
             hi10 == acc[1] * 10 + lo10 \div 65536
         IN  IF hi10 >= 65536 THEN NoU32 ELSE <<hi10, lo10 % 65536>>

RECURSIVE u32_digits(_, _)
u32_digits(s, acc) ==
    IF s = <<>> THEN acc
    ELSE u32_digits(Tail(s), u32_push_digit(acc, DigitVal(Head(s))))

\* str::parse::<u32>: an optional leading "+", then one or more digits
parse_u32(s) ==
    LET ds == IF s # <<>> /\ Head(s) = "+" THEN Tail(s) ELSE s
    IN  IF ds = <<>> \/ \E i \in 1..Len(ds) : ~IsDigit(ds[i])
        THEN NoU32
        ELSE u32_digits(ds, <<0, 0>>)

\* a parser that knows only the ' marker
strip_markers_quote_only(part) == trim_end_matches(part, "'")

strip_markers(part) ==
    trim_end_matches(trim_end_matches(trim_end_matches(part, "'"), "h"), "H")

\* the loop over parts.iter().skip(1)
RECURSIVE parse_parts(_, _)
parse_parts(parts, acc) ==
    IF parts = <<>> THEN Ok(acc)
    ELSE LET part == Head(parts)
         IN  IF part = <<>> THEN parse_parts(Tail(parts), acc)
             ELSE LET num == parse_u32(strip_markers(part))
                  IN  IF num = NoU32 THEN Err(ErrIndex(part))
                      ELSE parse_parts(Tail(parts), Append(acc, num))

\* a parser without the check of the leading marker
parse_slip10_path_unchecked(p) ==
    parse_parts(Tail(split(trim(p), "/")), <<>>)

parse_slip10_path(p) ==
    LET t == trim(p)
    IN  IF ~starts_with(t, "m") /\ ~starts_with(t, "M") THEN Err(ErrStart)
        ELSE parse_parts(Tail(split(t, "/")), <<>>)

-----------------------------------------------------------------------------
(* SLIP-10 Ed25519 deriver.                                                *)

\* running digest of bytes[lo..hi], kept below 65521; the range is halved
\* and the left half is computed (the test forces it) before the right half
\* is entered, which keeps the evaluation shallow
RECURSIVE Fold(_, _, _, _)
Fold(h, bytes, lo, hi) ==
    IF lo > hi THEN h
    ELSE IF lo = hi THEN (h * 31 + bytes[lo] + 1) % 65521
    ELSE LET mid == (lo + hi) \div 2
             left == Fold(h, bytes, lo, mid)
         IN  IF left >= 0 THEN Fold(left, bytes, mid + 1, hi) ELSE left

\* HMAC-SHA512 of the hmac and sha2 crates, which this library calls and does
\* not implement: here a fixed deterministic function of (key, message) with
\* 64 output bytes, every byte of which depends on the whole key and message.
HmacSha512(k, msg) ==
    LET h == Fold((Fold(7, k, 1, Len(k)) * 31 + 257) % 65521, msg, 1, Len(msg))
    IN  [i \in 1..64 |-> ((h + 1) * (2 * i + 1) + h \div 251) % 256]

\* Hmac::new_from_slice accepts a key of any length
hmac_new_from_slice(k) == Ok(k)

\* b"ed25519 seed"
Ed25519Seed == <<101, 100, 50, 53, 53, 49, 57, 32, 115, 101, 101, 100>>

slip10_master_key(s) ==
    LET hmac == hmac_new_from_slice(Ed25519Seed)
    IN  IF ~hmac.ok THEN Err(<<"hmac init">>)
        ELSE LET res == HmacSha512(hmac.val, s)
             IN  Ok(<<SubSeq(res, 1, 32), SubSeq(res, 33, 64)>>)

\* an index passed on as it is
hardened_index_plain(index) == index

\* index | 0x80000000
hardened_index(index) == u32_or(index, <<32768, 0>>)

\* the HMAC message: 0x00, the parent key, the hardened index big-endian
child_data(parent_key, index) ==
    <<0>> \o parent_key \o to_be_bytes(hardened_index(index))

\* what slip10_derive_child hands to the HMAC: its key and its message
child_hmac_input(parent_key, parent_chain_code, index) ==
    [hmac_key |-> parent_chain_code, hmac_msg |-> child_data(parent_key, index)]

slip10_derive_child(parent_key, parent_chain_code, index) ==
    LET inp == child_hmac_input(parent_key, parent_chain_code, index)
        hmac == hmac_new_from_slice(inp.hmac_key)
    IN  IF ~hmac.ok THEN Err(<<"hmac init">>)
        ELSE LET res == HmacSha512(hmac.val, inp.hmac_msg)
             IN  Ok(<<SubSeq(res, 1, 32), SubSeq(res, 33, 64)>>)

-----------------------------------------------------------------------------
(* Inputs of the derivation.                                               *)

\* the SLIP-10 test vector seed 000102...0f, and two short seeds
Seeds == { [i \in 1..16 |-> i - 1], <<255>> }

Prefixes == { Chars(x) : x \in {"m", "M", " m", "\tM", "x", "", " x", "mx"} }

Segs == { Chars(x) : x \in {"", "0", "44'", "44h", "44H", "501", "007",
                            "44''", "44hH", "44h'", "2147483648",
                            "4294967295'", "4294967296", "x", "+5", "'"} }

RECURSIVE Tails(_)
\* every "/seg/seg..." of at most n segments
Tails(n) ==
    IF n = 0 THEN { <<>> }
    ELSE { <<>> } \cup { <<"/">> \o sg \o t : sg \in Segs, t \in Tails(n - 1) }

SOLANA_PATH == Chars("m/44'/501'/0'/0'")
SUI_PATH == Chars("m/44'/784'/0'/0'/0'")

\* every prefix with at most one segment, "m" with at most MaxSegs segments,
\* and the two default paths
PathInputs ==
    { pre \o t : pre \in Prefixes, t \in Tails(1) }
        \cup { <<"m">> \o t : t \in Tails(MaxSegs) }
        \cup { SOLANA_PATH, SUI_PATH, SOLANA_PATH \o <<" ">> }

-----------------------------------------------------------------------------
(* derive_ed25519_private_key(seed, path), statement by statement.         *)

NoCall == [parent_key |-> <<>>, parent_chain_code |-> <<>>, index |-> <<>>,
           hmac_key |-> <<>>, hmac_msg |-> <<>>,
           child_key |-> <<>>, child_chain_code |-> <<>>]
NoResult == [ok |-> FALSE, val |-> <<>>, err |-> <<>>]

BechIdle ==
    /\ hrp = <<>> /\ data = <<>> /\ epc = "idle"
    /\ bits = <<>> /\ checksum = <<>> /\ encoded = <<>>
CosmosIdle ==
    /\ account = [private_key |-> <<>>, public_key |-> <<>>, pubkey_hash |-> <<>>]
    /\ addrs = {}
SlipIdle ==
    /\ seed = <<>> /\ path = <<>> /\ pc = "idle" /\ parsed = NoResult
    /\ indices = <<>> /\ key = <<>> /\ chain_code = <<>> /\ pos = 0
    /\ child_call = NoCall /\ result = NoResult
NoSolanaAccount == [private_key |-> <<>>, public_key |-> <<>>]
NoSuiAccount == [private_key |-> <<>>, public_key |-> <<>>, address |-> <<>>]
NoReturn == [method |-> "", val |-> <<>>]
AcctIdle ==
    /\ solana_account = NoSolanaAccount
    /\ sui_account = NoSuiAccount
    /\ returned = NoReturn
CallsIdle == calls = <<>>

Init ==
    /\ seed \in Seeds
    /\ path \in PathInputs
    /\ pc = "parse"
    /\ parsed = NoResult
    /\ indices = <<>>
    /\ key = <<>>
    /\ chain_code = <<>>
    /\ pos = 0
    /\ child_call = NoCall
    /\ result = NoResult
    /\ BechIdle
    /\ CosmosIdle
    /\ AcctIdle
    /\ CallsIdle

\* let indices = parse_slip10_path(path)?;
Parse ==
    /\ pc = "parse"
    /\ parsed' = parse_slip10_path(path)
    /\ IF parsed'.ok
       THEN /\ indices' = parsed'.val
            /\ pc' = "master"
            /\ UNCHANGED result
       ELSE /\ result' = Err(parsed'.err)
            /\ pc' = "done"
            /\ UNCHANGED indices
    /\ UNCHANGED <<seed, path, key, chain_code, pos, child_call>>
    /\ UNCHANGED <<bechVars, cosmosVars, acctVars, callVars>>

\* let (mut key, mut chain_code) = slip10_master_key(seed)?;
Master ==
    /\ pc = "master"
    /\ LET m == slip10_master_key(seed)
       IN  IF m.ok
           THEN /\ key' = m.val[1]
                /\ chain_code' = m.val[2]
                /\ pos' = 1
                /\ pc' = "loop"
                /\ UNCHANGED result
           ELSE /\ result' = Err(m.err)
                /\ pc' = "done"
                /\ UNCHANGED <<key, chain_code, pos>>
    /\ UNCHANGED <<seed, path, parsed, indices, child_call>>
    /\ UNCHANGED <<bechVars, cosmosVars, acctVars, callVars>>

\* a loop that forgets chain_code = new_chain_code
ChildKeepsChainCode ==
    /\ pc = "loop"
    /\ pos <= Len(indices)
    /\ LET index == indices[pos]
           c == slip10_derive_child(key, chain_code, index)
           inp == child_hmac_input(key, chain_code, index)
       IN  /\ key' = c.val[1]
           /\ pos' = pos + 1
           /\ child_call' = [parent_key |-> key,
                             parent_chain_code |-> chain_code,
                             index |-> index,
                             hmac_key |-> inp.hmac_key,
                             hmac_msg |-> inp.hmac_msg,
                             child_key |-> c.val[1],
                             child_chain_code |-> c.val[2]]
    /\ UNCHANGED <<seed, path, parsed, indices, chain_code, pc, result>>
    /\ UNCHANGED <<bechVars, cosmosVars, acctVars, callVars>>

\* one turn of: for index in indices { slip10_derive_child(&key, &chain_code, index)? }
Child ==
    /\ pc = "loop"
    /\ pos <= Len(indices)
    /\ LET index == indices[pos]
           c == slip10_derive_child(key, chain_code, index)
           inp == child_hmac_input(key, chain_code, index)
       IN  IF c.ok
           THEN /\ key' = c.val[1]
                /\ chain_code' = c.val[2]
                /\ pos' = pos + 1
                /\ child_call' = [parent_key |-> key,
                                  parent_chain_code |-> chain_code,
                                  index |-> index,
                                  hmac_key |-> inp.hmac_key,
                                  hmac_msg |-> inp.hmac_msg,
                                  child_key |-> c.val[1],
                                  child_chain_code |-> c.val[2]]
                /\ UNCHANGED <<pc, result>>
           ELSE /\ result' = Err(c.err)
                /\ pc' = "done"
                /\ UNCHANGED <<key, chain_code, pos, child_call>>
    /\ UNCHANGED <<seed, path, parsed, indices>>
    /\ UNCHANGED <<bechVars, cosmosVars, acctVars, callVars>>

\* Ok(key)
Finish ==
    /\ pc = "loop"
    /\ pos > Len(indices)
    /\ result' = Ok(key)
    /\ pc' = "done"
    /\ UNCHANGED <<seed, path, parsed, indices, key, chain_code, pos, child_call>>
    /\ UNCHANGED <<bechVars, cosmosVars, acctVars, callVars>>

Next == Parse \/ Master \/ Child \/ Finish

Spec == Init /\ [][Next]_vars

-----------------------------------------------------------------------------
(* Bech32 codec: convert_bits, bech32_checksum, encode_bech32.             *)

\* c as u8 for the ASCII letters and digits (the characters of the HRPs used)
Lower == Chars("abcdefghijklmnopqrstuvwxyz")
Upper == Chars("ABCDEFGHIJKLMNOPQRSTUVWXYZ")
CharCode(c) ==
    IF \E i \in 1..26 : Lower[i] = c THEN 96 + (CHOOSE i \in 1..26 : Lower[i] = c)
    ELSE IF \E i \in 1..26 : Upper[i] = c THEN 64 + (CHOOSE i \in 1..26 : Upper[i] = c)
    ELSE 48 + DigitVal(c)

\* one input value taken into the accumulator: acc = (acc << from) | value
conv_take(st, value, from_bits) ==
    [acc |-> u32_or(u32_shl(st.acc, from_bits), U32(value)),
     bits |-> st.bits + from_bits,
     result |-> st.result]

\* while bits >= to_bits { bits -= to_bits; push((acc >> bits) & max_v) }
RECURSIVE conv_drain(_, _, _)
conv_drain(st, to_bits, max_v) ==
    IF st.bits >= to_bits
    THEN conv_drain(
             [acc |-> st.acc,
              bits |-> st.bits - to_bits,
              result |-> Append(st.result,
                  u32_and(u32_shr(st.acc, st.bits - to_bits), max_v)[2] % 256)],
             to_bits, max_v)
    ELSE st

\* the loop over data[lo..hi]; the left half is computed before the right
RECURSIVE conv_loop(_, _, _, _, _, _, _)
conv_loop(st, bytes, lo, hi, from_bits, to_bits, max_v) ==
    IF lo > hi THEN st
    ELSE IF lo = hi
         THEN conv_drain(conv_take(st, bytes[lo], from_bits), to_bits, max_v)
    ELSE LET mid == (lo + hi) \div 2
             left == conv_loop(st, bytes, lo, mid, from_bits, to_bits, max_v)
         IN  IF left.bits >= 0
             THEN conv_loop(left, bytes, mid + 1, hi, from_bits, to_bits, max_v)
             ELSE left

\* (1u32 << to_bits) - 1
conv_max_v(to_bits) == U32(Pow2(to_bits) - 1)

\* a bit-packer that drops the final partial symbol
convert_bits_nopad(bytes, from_bits, to_bits, pad) ==
    conv_loop([acc |-> <<0, 0>>, bits |-> 0, result |-> <<>>],
              bytes, 1, Len(bytes), from_bits, to_bits, conv_max_v(to_bits)).result

\* a bit-packer that forgets the mask & max_v
convert_bits_unmasked(bytes, from_bits, to_bits, pad) ==
    LET st == conv_loop([acc |-> <<0, 0>>, bits |-> 0, result |-> <<>>],
                        bytes, 1, Len(bytes), from_bits, to_bits, <<65535, 65535>>)
    IN  IF pad /\ st.bits > 0
        THEN Append(st.result, u32_shl(st.acc, to_bits - st.bits)[2] % 256)
        ELSE st.result

convert_bits(bytes, from_bits, to_bits, pad) ==
    LET max_v == conv_max_v(to_bits)
        st == conv_loop([acc |-> <<0, 0>>, bits |-> 0, result |-> <<>>],
                        bytes, 1, Len(bytes), from_bits, to_bits, max_v)
    IN  IF pad /\ st.bits > 0
        THEN Append(st.result,
                    u32_and(u32_shl(st.acc, to_bits - st.bits), max_v)[2] % 256)
        ELSE st.result

bech32_hrp_expand(h) ==
    [i \in 1..Len(h) |-> (CharCode(h[i]) % 256) \div Pow2(5)]
        \o <<0>>
        \o [i \in 1..Len(h) |-> BitAnd(CharCode(h[i]) % 256, 31)]

generator == <<996825010, 642813549, 513874426, 1027748829, 705979059>>

\* for (i, &gen) in generator { if (top >> i) & 1 == 1 { chk ^= gen } }
RECURSIVE polymod_gens(_, _, _)
polymod_gens(chk, top, i) ==
    IF i > 4 THEN chk
    ELSE polymod_gens(IF Bit(top, i) = 1 THEN BitXor(chk, generator[i + 1]) ELSE chk,
                      top, i + 1)

\* one turn of the loop of bech32_polymod
polymod_step(chk, value) ==
    polymod_gens(BitXor(BitAnd(chk, 33554431) * 32, value), chk \div Pow2(25), 0)

\* the loop over values[lo..hi]; the left half is computed before the right
RECURSIVE polymod_loop(_, _, _, _)
polymod_loop(chk, values, lo, hi) ==
    IF lo > hi THEN chk
    ELSE IF lo = hi THEN polymod_step(chk, values[lo])
    ELSE LET mid == (lo + hi) \div 2
             left == polymod_loop(chk, values, lo, mid)
         IN  IF left >= 0 THEN polymod_loop(left, values, mid + 1, hi) ELSE left

bech32_polymod(values) == polymod_loop(1, values, 1, Len(values))

\* a checksum without the final ^ 1
bech32_checksum_no_xor(h, d) ==
    LET polymod == bech32_polymod(bech32_hrp_expand(h) \o d \o <<0, 0, 0, 0, 0, 0>>)
    IN  [i \in 1..6 |-> BitAnd(polymod \div Pow2(5 * (6 - i)), 31) % 256]

bech32_checksum(h, d) ==
    LET values == bech32_hrp_expand(h) \o d \o <<0, 0, 0, 0, 0, 0>>
        polymod == BitXor(bech32_polymod(values), 1)
    IN  [i \in 1..6 |-> BitAnd(polymod \div Pow2(5 * (5 - (i - 1))), 31) % 256]

charset == Chars("qpzry9x8gf2tvdw0s3jn54khce6mua7l")

\* charset.chars().nth(b): None past the last character
charset_nth(b) == IF b < Len(charset) THEN <<charset[b + 1]>> ELSE <<>>

\* the map over all_bits; Panic when an unwrap meets None
Panic == <<"panic">>
render(all_bits) ==
    IF \E i \in 1..Len(all_bits) : charset_nth(all_bits[i]) = <<>>
    THEN Panic
    ELSE [i \in 1..Len(all_bits) |-> charset_nth(all_bits[i])[1]]

\* format!("{}1{}", hrp, encoded)
format_hrp_1(h, enc) == h \o <<"1">> \o enc

encode_bech32(h, d) ==
    LET converted == convert_bits(d, 8, 5, TRUE)
        enc == render(converted \o bech32_checksum(h, converted))
    IN  IF enc = Panic THEN Panic ELSE format_hrp_1(h, enc)

-----------------------------------------------------------------------------
(* encode_bech32(hrp, data), statement by statement.                       *)

ByteSamples == {0, 165, 255}
Payloads == UNION { [1..n -> ByteSamples] : n \in 0..MaxData }

\* the HASH160 of test_bech32_encoding, 751e76e8...3bd6
TestHash ==
    <<117, 30, 118, 232, 25, 145, 150, 212, 84, 148,
      28, 69, 209, 179, 163, 35, 241, 67, 59, 214>>
\* a 20-byte hash of set bits and a 33-byte flag-and-key payload
LongPayloads ==
    { TestHash, [i \in 1..20 |-> 255], [i \in 1..33 |-> (i * 37) % 256] }

Hrps == { Chars(x) : x \in {"cosmos", "osmo", "juno", "a", "suiprivkey", "Tb1", ""} }

\* every HRP with the short and the long payloads, one HRP with all of them
BechInputs ==
    { <<h, d>> : h \in Hrps, d \in { x \in Payloads : Len(x) <= 2 } \cup LongPayloads }
        \cup { <<Chars("cosmos"), d>> : d \in Payloads }

InitBech32 ==
    /\ \E inp \in BechInputs : hrp = inp[1] /\ data = inp[2]
    /\ epc = "convert"
    /\ bits = <<>>
    /\ checksum = <<>>
    /\ encoded = <<>>
    /\ SlipIdle
    /\ CosmosIdle
    /\ AcctIdle
    /\ CallsIdle

\* let bits = convert_bits(data, 8, 5, true);
ConvertBits ==
    /\ epc = "convert"
    /\ bits' = convert_bits(data, 8, 5, TRUE)
    /\ epc' = "checksum"
    /\ UNCHANGED <<hrp, data, checksum, encoded>>
    /\ UNCHANGED <<slipVars, cosmosVars, acctVars, callVars>>

\* let checksum = bech32_checksum(hrp, &bits);
Checksum ==
    /\ epc = "checksum"
    /\ checksum' = bech32_checksum(hrp, bits)
    /\ epc' = "render"
    /\ UNCHANGED <<hrp, data, bits, encoded>>
    /\ UNCHANGED <<slipVars, cosmosVars, acctVars, callVars>>

\* all_bits.extend(checksum); the map through charset; format!
Render ==
    /\ epc = "render"
    /\ LET enc == render(bits \o checksum)
       IN  IF enc = Panic
           THEN epc' = "panic" /\ UNCHANGED encoded
           ELSE epc' = "done" /\ encoded' = format_hrp_1(hrp, enc)
    /\ UNCHANGED <<hrp, data, bits, checksum>>
    /\ UNCHANGED <<slipVars, cosmosVars, acctVars, callVars>>

NextBech32 == ConvertBits \/ Checksum \/ Render

SpecBech32 == InitBech32 /\ [][NextBech32]_vars

-----------------------------------------------------------------------------
(* CosmosAccount: construction and the address methods.                    *)

\* PublicKey::from_secret_key(..).serialize(): 33 bytes fixed by the private
\* key, the first one 2 or 3 (secp256k1 is an external crate)
private_key_to_public_key(private_key) ==
    LET h == Fold(11, private_key, 1, Len(private_key))
    IN  [i \in 1..33 |-> IF i = 1 THEN 2 + (h % 2) ELSE ((h + 3) * (2 * i + 1)) % 256]

\* RIPEMD160(SHA256(data)): 20 bytes fixed by data (external crates)
hash160(bytes) ==
    LET h == Fold(13, bytes, 1, Len(bytes))
    IN  [i \in 1..20 |-> ((h + 5) * (2 * i + 1) + h \div 127) % 256]

from_private_key(private_key) ==
    [private_key |-> private_key,
     public_key |-> private_key_to_public_key(private_key),
     pubkey_hash |-> hash160(private_key_to_public_key(private_key))]

CosmosChain ==
    {"CosmosHub", "Osmosis", "Juno", "Terra", "Injective", "Secret", "Akash", "Kava"}

CosmosChain_hrp(chain) ==
    CASE chain = "CosmosHub" -> Chars("cosmos")
      [] chain = "Osmosis" -> Chars("osmo")
      [] chain = "Juno" -> Chars("juno")
      [] chain = "Terra" -> Chars("terra")
      [] chain = "Injective" -> Chars("inj")
      [] chain = "Secret" -> Chars("secret")
      [] chain = "Akash" -> Chars("akash")
      [] chain = "Kava" -> Chars("kava")

\* an address method that ignores the chain
address_for_chain_hub_only(self, chain) ==
    encode_bech32(Chars("cosmos"), self.pubkey_hash)

address_for_chain(self, chain) ==
    encode_bech32(CosmosChain_hrp(chain), self.pubkey_hash)

address_with_hrp(self, h) == encode_bech32(h, self.pubkey_hash)

PrivateKeys ==
    { [i \in 1..32 |-> IF i = 32 THEN 1 ELSE 0],
      [i \in 1..32 |-> (7 * i) % 256],
      [i \in 1..32 |-> 255 - i] }

\* HRPs handed to address_with_hrp: a chain's own, a short one, one that
\* holds the separator, the empty one
CustomHrps == { Chars(x) : x \in {"cosmos", "a", "osmo1", ""} }

InitCosmos ==
    /\ account \in { from_private_key(k) : k \in PrivateKeys }
    /\ addrs = {}
    /\ SlipIdle
    /\ BechIdle
    /\ AcctIdle
    /\ CallsIdle

\* account.address_for_chain(chain); &self: the account is only read
AddressForChain ==
    /\ Cardinality(addrs) < MaxCalls
    /\ \E chain \in CosmosChain :
           addrs' = addrs \cup { [hrp |-> CosmosChain_hrp(chain),
                                  addr |-> address_for_chain(account, chain)] }
    /\ UNCHANGED account
    /\ UNCHANGED <<slipVars, bechVars, acctVars, callVars>>

\* account.address_with_hrp(hrp); &self: the account is only read
AddressWithHrp ==
    /\ Cardinality(addrs) < MaxCalls
    /\ \E h \in CustomHrps :
           addrs' = addrs \cup { [hrp |-> h, addr |-> address_with_hrp(account, h)] }
    /\ UNCHANGED account
    /\ UNCHANGED <<slipVars, bechVars, acctVars, callVars>>

NextCosmos == AddressForChain \/ AddressWithHrp

SpecCosmos == InitCosmos /\ [][NextCosmos]_vars

-----------------------------------------------------------------------------
(* derive_ed25519_private_key of solana/mod.rs as one function.            *)

\* for index in indices { (key, chain_code) = slip10_derive_child(..)? }; Ok(key)
RECURSIVE derive_loop(_, _, _)
derive_loop(kc, idxs, i) ==
    IF i > Len(idxs) THEN Ok(kc[1])
    ELSE LET c == slip10_derive_child(kc[1], kc[2], idxs[i])
         IN  IF ~c.ok THEN Err(c.err) ELSE derive_loop(c.val, idxs, i + 1)

derive_ed25519_private_key(s, p) ==
    LET idxs == parse_slip10_path(p)
    IN  IF ~idxs.ok THEN Err(idxs.err)
        ELSE LET m == slip10_master_key(s)
             IN  IF ~m.ok THEN Err(m.err) ELSE derive_loop(m.val, idxs.val, 1)

-----------------------------------------------------------------------------
(* The copies in sui/mod.rs: path parser and SLIP-10 deriver.              *)

sui_strip_markers(part) ==
    trim_end_matches(trim_end_matches(trim_end_matches(part, "'"), "h"), "H")

\* the loop over parts.iter().skip(1)
RECURSIVE sui_parse_parts(_, _)
sui_parse_parts(parts, acc) ==
    IF parts = <<>> THEN Ok(acc)
    ELSE LET part == Head(parts)
         IN  IF part = <<>> THEN sui_parse_parts(Tail(parts), acc)
             ELSE LET num == parse_u32(sui_strip_markers(part))
                  IN  IF num = NoU32 THEN Err(<<"invalid index", part>>)
                      ELSE sui_parse_parts(Tail(parts), Append(acc, num))

sui_parse_slip10_path(p) ==
    LET t == trim(p)
    IN  IF ~starts_with(t, "m") /\ ~starts_with(t, "M")
        THEN Err(<<"must start with m">>)
        ELSE sui_parse_parts(Tail(split(t, "/")), <<>>)

sui_slip10_master_key(s) ==
    LET hmac == hmac_new_from_slice(
                    <<101, 100, 50, 53, 53, 49, 57, 32, 115, 101, 101, 100>>)
    IN  IF ~hmac.ok THEN Err(<<"hmac init">>)
        ELSE LET res == HmacSha512(hmac.val, s)
             IN  Ok(<<SubSeq(res, 1, 32), SubSeq(res, 33, 64)>>)

\* a child step that writes the index low byte first
sui_child_data_le(parent_key, index) ==
    LET b == to_be_bytes(u32_or(index, <<32768, 0>>))
    IN  <<0>> \o parent_key \o <<b[4], b[3], b[2], b[1]>>

\* data: 0x00, the parent key, (index | 0x80000000).to_be_bytes()
sui_child_data(parent_key, index) ==
    <<0>> \o parent_key \o to_be_bytes(u32_or(index, <<32768, 0>>))

sui_slip10_derive_child(parent_key, parent_chain_code, index) ==
    LET hmac == hmac_new_from_slice(parent_chain_code)
    IN  IF ~hmac.ok THEN Err(<<"hmac init">>)
        ELSE LET res == HmacSha512(hmac.val, sui_child_data(parent_key, index))
             IN  Ok(<<SubSeq(res, 1, 32), SubSeq(res, 33, 64)>>)

RECURSIVE sui_derive_loop(_, _, _)
sui_derive_loop(kc, idxs, i) ==
    IF i > Len(idxs) THEN Ok(kc[1])
    ELSE LET c == sui_slip10_derive_child(kc[1], kc[2], idxs[i])
         IN  IF ~c.ok THEN Err(c.err) ELSE sui_derive_loop(c.val, idxs, i + 1)

sui_derive_ed25519_private_key(s, p) ==
    LET idxs == sui_parse_slip10_path(p)
    IN  IF ~idxs.ok THEN Err(idxs.err)
        ELSE LET m == sui_slip10_master_key(s)
             IN  IF ~m.ok THEN Err(m.err) ELSE sui_derive_loop(m.val, idxs.val, 1)

-----------------------------------------------------------------------------
(* The copies in sui/mod.rs: Bech32 codec.                                 *)

\* one turn of: for &value in data, with its inner while loop
RECURSIVE sui_conv_while(_, _, _)
sui_conv_while(st, to_bits, max_v) ==
    IF st.bits >= to_bits
    THEN sui_conv_while(
             [acc |-> st.acc,
              bits |-> st.bits - to_bits,
              result |-> Append(st.result,
                  u32_and(u32_shr(st.acc, st.bits - to_bits), max_v)[2] % 256)],
             to_bits, max_v)
    ELSE st

\* the loop over data[lo..hi]; the left half is computed before the right
RECURSIVE sui_conv_for(_, _, _, _, _, _, _)
sui_conv_for(st, bytes, lo, hi, from_bits, to_bits, max_v) ==
    IF lo > hi THEN st
    ELSE IF lo = hi
         THEN sui_conv_while(
                  [acc |-> u32_or(u32_shl(st.acc, from_bits), U32(bytes[lo])),
                   bits |-> st.bits + from_bits,
                   result |-> st.result],
                  to_bits, max_v)
    ELSE LET mid == (lo + hi) \div 2
             left == sui_conv_for(st, bytes, lo, mid, from_bits, to_bits, max_v)
         IN  IF left.bits >= 0
             THEN sui_conv_for(left, bytes, mid + 1, hi, from_bits, to_bits, max_v)
             ELSE left

sui_convert_bits(bytes, from_bits, to_bits, pad) ==
    LET max_v == U32(Pow2(to_bits) - 1)
        st == sui_conv_for([acc |-> <<0, 0>>, bits |-> 0, result |-> <<>>],
                           bytes, 1, Len(bytes), from_bits, to_bits, max_v)
    IN  IF pad /\ st.bits > 0
        THEN Append(st.result,
                    u32_and(u32_shl(st.acc, to_bits - st.bits), max_v)[2] % 256)
        ELSE st.result

sui_bech32_hrp_expand(h) ==
    [i \in 1..Len(h) |-> (CharCode(h[i]) % 256) \div 32]
        \o <<0>>
        \o [i \in 1..Len(h) |-> BitAnd(CharCode(h[i]) % 256, 31)]

\* one turn of the loop of bech32_polymod, the five generators in order
sui_polymod_turn(chk, value) ==
    LET top == chk \div Pow2(25)
        c0 == BitXor(BitAnd(chk, 33554431) * 32, value)
        c1 == IF Bit(top, 0) = 1 THEN BitXor(c0, 996825010) ELSE c0
        c2 == IF Bit(top, 1) = 1 THEN BitXor(c1, 642813549) ELSE c1
        c3 == IF Bit(top, 2) = 1 THEN BitXor(c2, 513874426) ELSE c2
        c4 == IF Bit(top, 3) = 1 THEN BitXor(c3, 1027748829) ELSE c3
    IN  IF Bit(top, 4) = 1 THEN BitXor(c4, 705979059) ELSE c4

\* the loop over values[lo..hi]; the left half is computed before the right
RECURSIVE sui_polymod_for(_, _, _, _)
sui_polymod_for(chk, values, lo, hi) ==
    IF lo > hi THEN chk
    ELSE IF lo = hi THEN sui_polymod_turn(chk, values[lo])
    ELSE LET mid == (lo + hi) \div 2
             left == sui_polymod_for(chk, values, lo, mid)
         IN  IF left >= 0 THEN sui_polymod_for(left, values, mid + 1, hi) ELSE left

sui_bech32_polymod(values) == sui_polymod_for(1, values, 1, Len(values))

sui_bech32_checksum(h, d) ==
    LET values == sui_bech32_hrp_expand(h) \o d \o [i \in 1..6 |-> 0]
        polymod == BitXor(sui_bech32_polymod(values), 1)
    IN  [i \in 1..6 |-> BitAnd(polymod \div Pow2(5 * (5 - (i - 1))), 31) % 256]

\* a private-key codec that puts a version symbol before the payload
encode_sui_bech32_versioned(h, d) ==
    LET converted == <<0>> \o sui_convert_bits(d, 8, 5, TRUE)
        all == converted \o sui_bech32_checksum(h, converted)
    IN  h \o <<"1">> \o [i \in 1..Len(all) |-> charset[all[i] + 1]]

encode_sui_bech32(h, d) ==
    LET converted == sui_convert_bits(d, 8, 5, TRUE)
        all == converted \o sui_bech32_checksum(h, converted)
        sui_charset == Chars("qpzry9x8gf2tvdw0s3jn54khce6mua7l")
    IN  IF \E i \in 1..Len(all) : all[i] >= Len(sui_charset)
        THEN Panic
        ELSE h \o <<"1">> \o [i \in 1..Len(all) |-> sui_charset[all[i] + 1]]

-----------------------------------------------------------------------------
(* SolanaAccount and SuiAccount: constructors and exports.                 *)

\* VerifyingKey::from(&SigningKey::from_bytes(..)).to_bytes(): 32 bytes fixed
\* by the private key (ed25519_dalek is an external crate)
ed25519_public_key(private_key) ==
    LET h == Fold(17, private_key, 1, Len(private_key))
    IN  [i \in 1..32 |-> ((h + 7) * (2 * i + 1) + h \div 113) % 256]

\* Blake2b<U32>: 32 bytes fixed by everything the hasher was fed (external
\* blake2 crate)
Blake2b256(input) ==
    LET h == Fold(19, input, 1, Len(input))
    IN  [i \in 1..32 |-> ((h + 9) * (2 * i + 1) + h \div 109) % 256]

\* SignatureScheme::Ed25519 as u8
SignatureScheme_Ed25519 == 0

SolanaAccount_from_private_key(private_key) ==
    [private_key |-> private_key, public_key |-> ed25519_public_key(private_key)]

SolanaAccount_from_seed_with_path(s, p) ==
    LET private_key == derive_ed25519_private_key(s, p)
    IN  IF ~private_key.ok THEN Err(private_key.err)
        ELSE Ok(SolanaAccount_from_private_key(private_key.val))

\* an export with the two halves exchanged
keypair_bytes_public_first(self) ==
    [i \in 1..64 |-> IF i <= 32 THEN self.public_key[i] ELSE self.private_key[i - 32]]

\* keypair[..32] = private_key; keypair[32..] = public_key
keypair_bytes(self) ==
    [i \in 1..64 |-> IF i <= 32 THEN self.private_key[i] ELSE self.public_key[i - 32]]

\* an address hashed from the public key alone
derive_sui_address_no_flag(public_key, scheme) == Blake2b256(public_key)

\* hasher.update(&[scheme as u8]); hasher.update(public_key); finalize
derive_sui_address(public_key, scheme) == Blake2b256(<<scheme>> \o public_key)

SuiAccount_from_private_key(private_key) ==
    LET public_key == ed25519_public_key(private_key)
    IN  [private_key |-> private_key,
         public_key |-> public_key,
         address |-> derive_sui_address(public_key, SignatureScheme_Ed25519)]

SuiAccount_from_seed_with_path(s, p) ==
    LET private_key == sui_derive_ed25519_private_key(s, p)
    IN  IF ~private_key.ok THEN Err(private_key.err)
        ELSE Ok(SuiAccount_from_private_key(private_key.val))

\* hex::encode: two lower-case digits per byte, the high nibble first
HexDigits == Chars("0123456789abcdef")
hex_encode(bytes) ==
    [i \in 1..(2 * Len(bytes)) |->
        HexDigits[(IF i % 2 = 1 THEN bytes[(i + 1) \div 2] \div 16
                   ELSE bytes[i \div 2] % 16) + 1]]

\* format!("0x{}", hex::encode(self.address))
SuiAccount_address(self) == <<"0", "x">> \o hex_encode(self.address)

\* data = [Ed25519 as u8] ++ private_key; encode_sui_bech32("suiprivkey", &data)
private_key_bech32(self) ==
    encode_sui_bech32(Chars("suiprivkey"),
                      <<SignatureScheme_Ed25519>> \o self.private_key)

-----------------------------------------------------------------------------
(* One Solana and one Sui account: construction, then method calls.        *)

\* paths handed to from_seed_with_path: the two defaults, a short one, a
\* segment that is no number, a missing leading marker
AccountPaths ==
    { SOLANA_PATH, SUI_PATH, Chars("m/44'"), Chars("m/44'/x"), Chars("44'/501'") }

\* private keys handed to from_private_key
AccountKeys ==
    PrivateKeys \cup { [i \in 1..32 |-> (k * i + 3 * k) % 256] : k \in 1..13 }

\* no account built yet: the model follows one account at a time
NoAccountYet == solana_account = NoSolanaAccount /\ sui_account = NoSuiAccount

InitAccounts ==
    /\ AcctIdle
    /\ SlipIdle
    /\ BechIdle
    /\ CosmosIdle
    /\ CallsIdle

\* SolanaAccount::from_private_key(private_key)
SolanaFromPrivateKey ==
    /\ NoAccountYet
    /\ \E k \in AccountKeys : solana_account' = SolanaAccount_from_private_key(k)
    /\ UNCHANGED <<sui_account, returned>>
    /\ UNCHANGED <<slipVars, bechVars, cosmosVars, callVars>>

\* SolanaAccount::from_seed_with_path(seed, path): an account or an error
SolanaFromSeedWithPath ==
    /\ NoAccountYet
    /\ \E s \in Seeds, p \in AccountPaths :
           LET r == SolanaAccount_from_seed_with_path(s, p)
           IN  IF r.ok
               THEN solana_account' = r.val /\ UNCHANGED returned
               ELSE /\ returned' = [method |-> "from_seed_with_path", val |-> r.err]
                    /\ UNCHANGED solana_account
    /\ UNCHANGED sui_account
    /\ UNCHANGED <<slipVars, bechVars, cosmosVars, callVars>>

\* SuiAccount::from_private_key(private_key)
SuiFromPrivateKey ==
    /\ NoAccountYet
    /\ \E k \in AccountKeys : sui_account' = SuiAccount_from_private_key(k)
    /\ UNCHANGED <<solana_account, returned>>
    /\ UNCHANGED <<slipVars, bechVars, cosmosVars, callVars>>

\* SuiAccount::from_seed_with_path(seed, path): an account or an error
SuiFromSeedWithPath ==
    /\ NoAccountYet
    /\ \E s \in Seeds, p \in AccountPaths :
           LET r == SuiAccount_from_seed_with_path(s, p)
           IN  IF r.ok
               THEN sui_account' = r.val /\ UNCHANGED returned
               ELSE /\ returned' = [method |-> "from_seed_with_path", val |-> r.err]
                    /\ UNCHANGED sui_account
    /\ UNCHANGED solana_account
    /\ UNCHANGED <<slipVars, bechVars, cosmosVars, callVars>>

\* account.keypair_bytes(); &self: the account is only read
SolanaKeypairBytes ==
    /\ solana_account # NoSolanaAccount
    /\ returned' = [method |-> "keypair_bytes", val |-> keypair_bytes(solana_account)]
    /\ UNCHANGED <<solana_account, sui_account>>
    /\ UNCHANGED <<slipVars, bechVars, cosmosVars, callVars>>

\* account.address(); &self: the account is only read
SuiAddress ==
    /\ sui_account # NoSuiAccount
    /\ returned' = [method |-> "address", val |-> SuiAccount_address(sui_account)]
    /\ UNCHANGED <<solana_account, sui_account>>
    /\ UNCHANGED <<slipVars, bechVars, cosmosVars, callVars>>

\* account.private_key_bech32(); &self: the account is only read
SuiPrivateKeyBech32 ==
    /\ sui_account # NoSuiAccount
    /\ returned' = [method |-> "private_key_bech32",
                    val |-> private_key_bech32(sui_account)]
    /\ UNCHANGED <<solana_account, sui_account>>
    /\ UNCHANGED <<slipVars, bechVars, cosmosVars, callVars>>

NextAccounts ==
    \/ SolanaFromPrivateKey
    \/ SolanaFromSeedWithPath
    \/ SuiFromPrivateKey
    \/ SuiFromSeedWithPath
    \/ SolanaKeypairBytes
    \/ SuiAddress
    \/ SuiPrivateKeyBech32

SpecAccounts == InitAccounts /\ [][NextAccounts]_vars

-----------------------------------------------------------------------------
(* from_seed_with_path calls in progress side by side.  Each call has its   *)
(* own arguments and locals; the source has no static, no cache and no     *)
(* interior mutability, so a call reads nothing but its own record.        *)

IdleCall ==
    [stage |-> "idle", family |-> "", seed |-> <<>>, path |-> <<>>,
     private_key |-> <<>>, result |-> NoResult]

Families == {"solana", "sui"}
CallSeeds == { <<255>>, <<1, 2>> }
CallPaths == { Chars("m/44'"), Chars("m/x") }

InitCalls ==
    /\ calls = [i \in 1..MaxCalls |-> IdleCall]
    /\ SlipIdle
    /\ BechIdle
    /\ CosmosIdle
    /\ AcctIdle

\* a caller enters from_seed_with_path(seed, path) of one family; a call
\* that has returned leaves its place to the next one
CallStart ==
    /\ \E i \in 1..MaxCalls, f \in Families, s \in CallSeeds, p \in CallPaths :
           /\ calls[i].stage \in {"idle", "returned"}
           /\ calls' = [calls EXCEPT ![i] =
                  [stage |-> "derive", family |-> f, seed |-> s, path |-> p,
                   private_key |-> <<>>, result |-> NoResult]]
    /\ UNCHANGED <<slipVars, bechVars, cosmosVars, acctVars>>

\* a deriver that keeps the last derived key of a seed and hands it out again
CallDeriveCached ==
    /\ \E i \in 1..MaxCalls :
           /\ calls[i].stage = "derive"
           /\ LET hit == { j \in 1..MaxCalls :
                             /\ calls[j].private_key # <<>>
                             /\ calls[j].seed = calls[i].seed }
                  r == IF calls[i].family = "solana"
                       THEN derive_ed25519_private_key(calls[i].seed, calls[i].path)
                       ELSE sui_derive_ed25519_private_key(calls[i].seed, calls[i].path)
              IN  calls' = [calls EXCEPT ![i] =
                      IF hit # {}
                      THEN [@ EXCEPT !.stage = "build",
                                     !.private_key = calls[CHOOSE j \in hit : TRUE].private_key]
                      ELSE IF r.ok
                      THEN [@ EXCEPT !.stage = "build", !.private_key = r.val]
                      ELSE [@ EXCEPT !.stage = "returned", !.result = Err(r.err)]]
    /\ UNCHANGED <<slipVars, bechVars, cosmosVars, acctVars>>

\* let private_key = derive_ed25519_private_key(seed, path)?;
CallDerive ==
    /\ \E i \in 1..MaxCalls :
           /\ calls[i].stage = "derive"
           /\ LET r == IF calls[i].family = "solana"
                       THEN derive_ed25519_private_key(calls[i].seed, calls[i].path)
                       ELSE sui_derive_ed25519_private_key(calls[i].seed, calls[i].path)
              IN  calls' = [calls EXCEPT ![i] =
                      IF r.ok
                      THEN [@ EXCEPT !.stage = "build", !.private_key = r.val]
                      ELSE [@ EXCEPT !.stage = "returned", !.result = Err(r.err)]]
    /\ UNCHANGED <<slipVars, bechVars, cosmosVars, acctVars>>

\* Ok(Self::from_private_key(private_key))
CallBuild ==
    /\ \E i \in 1..MaxCalls :
           /\ calls[i].stage = "build"
           /\ calls' = [calls EXCEPT ![i] =
                  [@ EXCEPT !.stage = "returned",
                            !.result = Ok(IF calls[i].family = "solana"
                                          THEN SolanaAccount_from_private_key(calls[i].private_key)
                                          ELSE SuiAccount_from_private_key(calls[i].private_key))]]
    /\ UNCHANGED <<slipVars, bechVars, cosmosVars, acctVars>>

NextCalls == CallStart \/ CallDerive \/ CallBuild

SpecCalls == InitCalls /\ [][NextCalls]_vars

-----------------------------------------------------------------------------
(* The Solana deriver and the Cosmos codec run on their inputs, to be set  *)
(* against the copies in sui/mod.rs.                                       *)

InitCopies == Init \/ InitBech32

NextCopies == Next \/ NextBech32

SpecCopies == InitCopies /\ [][NextCopies]_vars

-----------------------------------------------------------------------------
(* Properties of the path parser and the deriver.                          *)

Markers == {"'", "h", "H"}
AllDigits(s) == s # <<>> /\ \A i \in 1..Len(s) : IsDigit(s[i])
AllMarkers(s) == \A i \in 1..Len(s) : s[i] \in Markers

\* the first character that is not whitespace, <<>> when there is none
FirstNonBlank(p) ==
    IF \A i \in 1..Len(p) : p[i] \in WhiteSpace THEN <<>>
    ELSE LET i == CHOOSE j \in 1..Len(p) :
                      p[j] \notin WhiteSpace /\ \A k \in 1..(j - 1) : p[k] \in WhiteSpace
         IN  <<p[i]>>

Parsed == pc # "parse"

\* C2 as claimed: a path whose first character is not m or M (the empty path
\* and a path starting with whitespace included) is rejected with the
\* invalid-format error and no index sequence.
C2_FirstCharNotM_Rejected ==
    (Parsed /\ (path = <<>> \/ path[1] \notin {"m", "M"}))
        => parsed = Err(ErrStart)

\* C2 amended: the path is trimmed first; it is rejected with the
\* invalid-format error and no index sequence exactly when its first
\* character after the surrounding whitespace is not m or M (none included).
C2_FirstNonBlankNotM_Rejected ==
    Parsed =>
        /\ (FirstNonBlank(path) \notin {<<"m">>, <<"M">>}) => parsed = Err(ErrStart)
        /\ (FirstNonBlank(path) \in {<<"m">>, <<"M">>}) => parsed.err # ErrStart

C2_Witness ==
    /\ Parsed
    /\ path = Chars(" x/44'")
    /\ parsed = Err(ErrStart)
    /\ result = Err(ErrStart)

\* C3 as claimed: every index of a successful parse is below 2^31.
C3_IndicesBelow2Pow31 ==
    (Parsed /\ parsed.ok) => \A i \in 1..Len(parsed.val) : parsed.val[i][1] < 32768

\* a segment of digits followed by two or more marker characters
DigitsThenMarkers(sg) ==
    \E k \in 1..(Len(sg) - 2) :
        AllDigits(SubSeq(sg, 1, k)) /\ AllMarkers(SubSeq(sg, k + 1, Len(sg)))

\* C4 as claimed: a segment of digits followed by two or more marker
\* characters makes the whole parse fail with the invalid-path error.
C4_RepeatedMarkerRejected ==
    LET parts == split(path, "/")
    IN  (Parsed /\ parts[1] \in {<<"m">>, <<"M">>}
                /\ \E i \in 2..Len(parts) : DigitsThenMarkers(parts[i]))
            => (~parsed.ok /\ parsed.err # ErrStart)

\* the digits of a segment: the segment without one trailing marker
SegDigits(sg) ==
    IF sg # <<>> /\ sg[Len(sg)] \in Markers THEN SubSeq(sg, 1, Len(sg) - 1) ELSE sg

RECURSIVE StripZeros(_)
StripZeros(ds) ==
    IF Len(ds) > 1 /\ Head(ds) = "0" THEN StripZeros(Tail(ds)) ELSE ds

\* the decimal numeral of a u32
RECURSIVE ToDecimal(_)
ToDecimal(x) ==
    LET t == (x[1] % 10) * 65536 + x[2]
        q == <<x[1] \div 10, t \div 10>>
    IN  IF q = <<0, 0>> THEN <<Digits[(t % 10) + 1]>>
        ELSE ToDecimal(q) \o <<Digits[(t % 10) + 1]>>

RECURSIVE NonEmpty(_)
NonEmpty(parts) ==
    IF parts = <<>> THEN <<>>
    ELSE IF Head(parts) = <<>> THEN NonEmpty(Tail(parts))
    ELSE <<Head(parts)>> \o NonEmpty(Tail(parts))

\* the numeral ds (no leading zero) names a number below 2^32 = 4294967296
RECURSIVE NumeralLess(_, _)
NumeralLess(a, b) ==
    /\ a # <<>>
    /\ \/ DigitVal(Head(a)) < DigitVal(Head(b))
       \/ DigitVal(Head(a)) = DigitVal(Head(b)) /\ NumeralLess(Tail(a), Tail(b))
Below2Pow32(ds) ==
    \/ Len(StripZeros(ds)) < 10
    \/ Len(StripZeros(ds)) = 10 /\ NumeralLess(StripZeros(ds), Chars("4294967296"))

\* m/s1/.../sn, every non-empty segment digits and at most one marker
WellFormed(p) ==
    LET parts == split(p, "/")
    IN  /\ parts[1] \in {<<"m">>, <<"M">>}
        /\ \A i \in 2..Len(parts) : parts[i] = <<>> \/ AllDigits(SegDigits(parts[i]))

\* the parse returned the numbers of the non-empty segments, in order
ReturnsTheNumbers(p) ==
    LET segs == NonEmpty(Tail(split(p, "/")))
    IN  /\ parsed.ok
        /\ Len(parsed.val) = Len(segs)
        /\ \A i \in 1..Len(segs) :
               ToDecimal(parsed.val[i]) = StripZeros(SegDigits(segs[i]))

\* C5 as claimed: a well-formed path parses to the numbers of its non-empty
\* segments in order, whatever marker each carries; "m" alone gives <<>>.
C5_WellFormedParses ==
    (Parsed /\ WellFormed(path)) => ReturnsTheNumbers(path)

\* C5 amended: the same for a well-formed path every number of which is
\* below 2^32 (a larger number makes the parse fail).
C5_WellFormedBelow2Pow32Parses ==
    LET segs == NonEmpty(Tail(split(path, "/")))
    IN  (Parsed /\ WellFormed(path))
            => IF \A i \in 1..Len(segs) : Below2Pow32(SegDigits(segs[i]))
               THEN ReturnsTheNumbers(path)
               ELSE ~parsed.ok

C5_Witness ==
    /\ Parsed
    /\ path = Chars("m/44h/")
    /\ parsed = Ok(<< <<0, 44>> >>)

\* C6: every child step hands the HMAC the parent chain code as key and the
\* 37 bytes 0x00, parent key, big-endian (index | 0x80000000) as message,
\* and splits the 64 output bytes into child key and child chain code.
C6_ChildMessageLayout ==
    (child_call # NoCall) =>
        LET c == child_call
            out == HmacSha512(c.hmac_key, c.hmac_msg)
        IN  /\ Len(c.parent_key) = 32
            /\ Len(c.hmac_msg) = 37
            /\ c.hmac_msg[1] = 0
            /\ SubSeq(c.hmac_msg, 2, 33) = c.parent_key
            /\ c.hmac_msg[34] >= 128
            /\ c.hmac_msg[34] % 128 = (c.index[1] \div 256) % 128
            /\ c.hmac_msg[35] = c.index[1] % 256
            /\ c.hmac_msg[36] = c.index[2] \div 256
            /\ c.hmac_msg[37] = c.index[2] % 256
            /\ c.hmac_key = c.parent_chain_code
            /\ c.child_key = SubSeq(out, 1, 32)
            /\ c.child_chain_code = SubSeq(out, 33, 64)
            /\ key = c.child_key
            /\ chain_code = c.child_chain_code

C6_Witness ==
    /\ child_call # NoCall
    /\ child_call.index = <<0, 501>>
    /\ SubSeq(child_call.hmac_msg, 34, 37) = <<128, 0, 1, 245>>

\* the key and chain code after the master step and one child step per index
RECURSIVE DeriveChain(_, _)
DeriveChain(kc, idxs) ==
    IF idxs = <<>> THEN kc
    ELSE DeriveChain(slip10_derive_child(kc[1], kc[2], Head(idxs)).val, Tail(idxs))

\* C7: a finished derivation returns the key of the master step followed by
\* one child step per parsed index, in order, each fed the previous key and
\* chain code; an invalid path returns an error and no key; no key is
\* returned before the last index is consumed.
C7_AllOrNothing ==
    LET p == parse_slip10_path(path)
        m == slip10_master_key(seed).val
    IN  /\ (pc = "loop") =>
               <<key, chain_code>> = DeriveChain(m, SubSeq(indices, 1, pos - 1))
        /\ (pc # "done") => result = NoResult
        /\ (pc = "done") =>
               IF p.ok THEN result = Ok(DeriveChain(m, p.val)[1])
               ELSE ~result.ok /\ result.val = <<>> /\ result.err = p.err

C7_Witness ==
    /\ pc = "done"
    /\ path = SOLANA_PATH
    /\ result.ok
    /\ Len(indices) = 4
    /\ pos = 5

-----------------------------------------------------------------------------
(* Properties of the Bech32 codec.                                         *)

InCharset(c) == \E i \in 1..32 : charset[i] = c
\* the symbol a character of the alphabet stands for
charset_index(c) == (CHOOSE i \in 1..32 : charset[i] = c) - 1

\* the symbols written after h and the separator in the string s
SymbolsOf(h, s) ==
    [i \in 1..(Len(s) - Len(h) - 1) |-> charset_index(s[Len(h) + 1 + i])]

\* checksum verification of the string s under the HRP h
Verifies(h, s) ==
    /\ Len(s) >= Len(h) + 7
    /\ \A i \in (Len(h) + 2)..Len(s) : InCharset(s[i])
    /\ BitXor(bech32_polymod(bech32_hrp_expand(h) \o SymbolsOf(h, s)), 1) = 0

\* bit p of the byte string d, counted from the top bit of d[1]; 0 past the end
InBit(d, p) == IF p < 8 * Len(d) THEN Bit(d[p \div 8 + 1], 7 - (p % 8)) ELSE 0
\* bit p of the 5-bit symbols b, counted from the top bit of b[1]
OutBit(b, p) == Bit(b[p \div 5 + 1], 4 - (p % 5))
\* ceil(8n / 5)
SymbolCount(n) == (8 * n + 4) \div 5
\* symbol i of the big-endian regrouping of d, zero-filled
Regrouped(d, i) ==
    16 * InBit(d, 5 * (i - 1)) + 8 * InBit(d, 5 * (i - 1) + 1)
    + 4 * InBit(d, 5 * (i - 1) + 2) + 2 * InBit(d, 5 * (i - 1) + 3)
    + InBit(d, 5 * (i - 1) + 4)

\* C1: the string the encoder returns passes the codec's checksum
\* verification: the polymod, XORed with 1, of the expanded HRP, the payload
\* symbols and the six checksum symbols is 0, on the symbols the encoder
\* holds and on the symbols read back from the string.
C1_EncodedVerifies ==
    /\ epc \in {"render", "done"} =>
           BitXor(bech32_polymod(bech32_hrp_expand(hrp) \o bits \o checksum), 1) = 0
    /\ epc = "done" =>
           /\ Verifies(hrp, encoded)
           /\ SymbolsOf(hrp, encoded) = bits \o checksum
           /\ Len(checksum) = 6

C1_Witness ==
    /\ epc = "done"
    /\ hrp = Chars("cosmos")
    /\ data = TestHash
    /\ encoded = Chars("cosmos1w508d6qejxtdg4y5r3zarvary0c5xw7k6ah60c")

\* C8: convert_bits(data, 8, 5, true) has ceil(8n/5) symbols, each below 32,
\* and their bits, read in order, are the bits of data followed by zeros
\* only, also when data is longer than the accumulator.
C8_ConvertBitsRegroups ==
    epc \in {"checksum", "render", "done"} =>
        /\ Len(bits) = SymbolCount(Len(data))
        /\ \A i \in 1..Len(bits) : bits[i] \in 0..31
        /\ \A p \in 0..(5 * Len(bits) - 1) : OutBit(bits, p) = InBit(data, p)

C8_Witness ==
    /\ epc = "checksum"
    /\ Len(data) = 33
    /\ Len(bits) = 53
    /\ bits[53] = 2 * (data[33] % 16)
    /\ data[33] % 16 # 0

\* C9: the encoder never panics on the alphabet lookup, and returns the HRP,
\* the separator "1", ceil(8n/5) payload characters that start with the first
\* five bits of the payload (no version symbol), and 6 checksum characters,
\* all of the alphabet; 20 bytes give a string of length len(hrp) + 39.
C9_EncodedShape ==
    /\ epc # "panic"
    /\ epc = "render" => \A i \in 1..Len(bits \o checksum) : (bits \o checksum)[i] \in 0..31
    /\ epc = "done" =>
           LET k == Len(hrp)
               m == SymbolCount(Len(data))
           IN  /\ Len(encoded) = k + 1 + m + 6
               /\ SubSeq(encoded, 1, k) = hrp
               /\ encoded[k + 1] = "1"
               /\ \A i \in (k + 2)..Len(encoded) : InCharset(encoded[i])
               /\ \A i \in 1..m : encoded[k + 1 + i] = charset[Regrouped(data, i) + 1]
               /\ Len(data) = 20 => Len(encoded) = k + 39
               /\ encoded = encode_bech32(hrp, data)

C9_Witness ==
    /\ epc = "done"
    /\ hrp = Chars("osmo")
    /\ Len(data) = 20
    /\ Len(encoded) = 43
    /\ SubSeq(encoded, 1, 6) = Chars("osmo1l")

-----------------------------------------------------------------------------
(* Properties of CosmosAccount.                                            *)

\* the 32 characters after the separator of an address under the HRP h
PayloadChars(h, s) == SubSeq(s, Len(h) + 2, Len(h) + 33)

AddressesShareHash ==
    \A a \in addrs :
        /\ Len(a.addr) = Len(a.hrp) + 39
        /\ PayloadChars(a.hrp, a.addr) =
               [i \in 1..32 |-> charset[Regrouped(account.pubkey_hash, i) + 1]]
        /\ Verifies(a.hrp, a.addr)
        /\ \A b \in addrs :
               a.hrp # b.hrp =>
                   /\ a.addr # b.addr
                   /\ PayloadChars(a.hrp, a.addr) = PayloadChars(b.hrp, b.addr)

AccountKept ==
    /\ account'.private_key = account.private_key
    /\ account'.public_key = account.public_key
    /\ account'.pubkey_hash = account.pubkey_hash

\* C10: the addresses one account returns for two different HRPs differ,
\* carry the same 32 payload characters, those of the stored pubkey_hash,
\* each verify under their own HRP, and no call changes the account's
\* private_key, public_key or pubkey_hash.
C10_SameHashOtherHrp == [](AddressesShareHash) /\ [][AccountKept]_vars

C10_Witness ==
    /\ account = from_private_key([i \in 1..32 |-> IF i = 32 THEN 1 ELSE 0])
    /\ \E a, b \in addrs :
           /\ a.hrp = Chars("cosmos")
           /\ b.hrp = Chars("osmo1")
           /\ a.addr # b.addr
           /\ PayloadChars(a.hrp, a.addr) = PayloadChars(b.hrp, b.addr)

-----------------------------------------------------------------------------
(* Properties of SuiAccount and SolanaAccount.                             *)

LowerHex == <<"0", "1", "2", "3", "4", "5", "6", "7",
              "8", "9", "a", "b", "c", "d", "e", "f">>
IsLowerHex(c) == \E i \in 1..16 : LowerHex[i] = c
HexVal(c) == (CHOOSE i \in 1..16 : LowerHex[i] = c) - 1
\* the bytes a string of hex digit pairs stands for
FromHex(cs) == [i \in 1..(Len(cs) \div 2) |-> 16 * HexVal(cs[2 * i - 1]) + HexVal(cs[2 * i])]

\* C11: a SuiAccount's address field is the 32-byte Blake2b-256 digest of 33
\* bytes, 0x00 followed by the 32-byte public key, and address() returns "0x"
\* and the 64 lower-case hex digits of that field, 66 characters in all.
C11_SuiAddress ==
    /\ sui_account # NoSuiAccount =>
           /\ Len(sui_account.private_key) = 32
           /\ Len(sui_account.public_key) = 32
           /\ Len(<<0>> \o sui_account.public_key) = 33
           /\ Len(sui_account.address) = 32
           /\ sui_account.address = Blake2b256(<<0>> \o sui_account.public_key)
    /\ returned.method = "address" =>
           /\ Len(returned.val) = 66
           /\ SubSeq(returned.val, 1, 2) = <<"0", "x">>
           /\ \A i \in 3..Len(returned.val) : IsLowerHex(returned.val[i])
           /\ FromHex(SubSeq(returned.val, 3, Len(returned.val))) = sui_account.address

C11_Witness ==
    /\ returned.method = "address"
    /\ sui_account = SuiAccount_from_seed_with_path(<<255>>, SUI_PATH).val
    /\ Len(returned.val) = 66
    /\ \E i \in 3..66 : returned.val[i] \in {"a", "b", "c", "d", "e", "f"}

\* C12: private_key_bech32() is the Bech32 string under "suiprivkey" of the
\* 33 bytes 0x00 and the private key: "suiprivkey1", 53 payload characters
\* that regroup those bytes, 6 checksum characters that verify, 70
\* characters in all, the first payload character being that of symbol 0.
C12_PrivateKeyBech32 ==
    returned.method = "private_key_bech32" =>
        LET v == returned.val
            payload == <<0>> \o sui_account.private_key
        IN  /\ Len(payload) = 33
            /\ Len(v) = 70
            /\ SubSeq(v, 1, 11) = Chars("suiprivkey1")
            /\ \A i \in 12..Len(v) : InCharset(v[i])
            /\ \A i \in 1..53 : v[11 + i] = charset[Regrouped(payload, i) + 1]
            /\ v[12] = charset[1]
            /\ Verifies(Chars("suiprivkey"), v)

C12_Witness ==
    /\ returned.method = "private_key_bech32"
    /\ sui_account.private_key = [i \in 1..32 |-> 255 - i]
    /\ Len(returned.val) = 70
    /\ SubSeq(returned.val, 1, 13) = Chars("suiprivkey1qr")

KeypairIsBothKeys ==
    returned.method = "keypair_bytes" =>
        /\ Len(returned.val) = 64
        /\ Len(solana_account.private_key) = 32
        /\ Len(solana_account.public_key) = 32
        /\ SubSeq(returned.val, 1, 32) = solana_account.private_key
        /\ SubSeq(returned.val, 33, 64) = solana_account.public_key

KeypairKeepsAccount ==
    returned'.method = "keypair_bytes" =>
        /\ solana_account'.private_key = solana_account.private_key
        /\ solana_account'.public_key = solana_account.public_key

\* C13: keypair_bytes() returns 64 bytes, the account's private_key followed
\* by its public_key, and the call leaves both fields as they were.
C13_KeypairBytes == [](KeypairIsBothKeys) /\ [][KeypairKeepsAccount]_vars

C13_Witness ==
    /\ returned.method = "keypair_bytes"
    /\ solana_account = SolanaAccount_from_seed_with_path(<<255>>, SOLANA_PATH).val
    /\ SubSeq(returned.val, 33, 64) = solana_account.public_key
    /\ solana_account.private_key # solana_account.public_key

-----------------------------------------------------------------------------
(* Properties of calls made side by side.                                  *)

\* what from_seed_with_path of the family f returns for (s, p), on its own
FromSeedWithPath(f, s, p) ==
    IF f = "solana" THEN SolanaAccount_from_seed_with_path(s, p)
    ELSE SuiAccount_from_seed_with_path(s, p)

SameArguments(a, b) == a.family = b.family /\ a.seed = b.seed /\ a.path = b.path

-----------------------------------------------------------------------------
(* Properties of the duplicated components.                                *)

\* the two accounts hold the same keys, or the two calls fail alike
SameKeys(sol, su) ==
    /\ sol.ok = su.ok
    /\ sol.err = su.err
    /\ sol.ok => /\ sol.val.private_key = su.val.private_key
                 /\ sol.val.public_key = su.val.public_key

\* C15: the copies in sui/mod.rs return what the Solana deriver and the
\* Cosmos codec return: the same parsed indices or error, the same master
\* key and chain code, the same child key and chain code, the same derived
\* key or error, hence the same private and public key in a Solana and a Sui
\* account of one seed and path; and the same Bech32 string.
C15_CopiesAgree ==
    /\ pc \notin {"idle", "parse"} => parsed = sui_parse_slip10_path(path)
    /\ (pc = "loop" /\ pos = 1) =>
           Ok(<<key, chain_code>>) = sui_slip10_master_key(seed)
    /\ (pc = "loop" /\ pos > 1) =>
           /\ sui_slip10_derive_child(child_call.parent_key,
                                      child_call.parent_chain_code,
                                      child_call.index)
                  = Ok(<<child_call.child_key, child_call.child_chain_code>>)
           /\ <<key, chain_code>> = <<child_call.child_key, child_call.child_chain_code>>
    /\ pc = "done" =>
           /\ result = sui_derive_ed25519_private_key(seed, path)
           /\ SameKeys(SolanaAccount_from_seed_with_path(seed, path),
                       SuiAccount_from_seed_with_path(seed, path))
    /\ epc # "panic"
    /\ epc \in {"checksum", "render", "done"} => bits = sui_convert_bits(data, 8, 5, TRUE)
    /\ epc \in {"render", "done"} => checksum = sui_bech32_checksum(hrp, bits)
    /\ epc = "done" => encoded = encode_sui_bech32(hrp, data)

C15_Witness ==
    /\ pc = "done"
    /\ path = SUI_PATH
    /\ result.ok
    /\ result = sui_derive_ed25519_private_key(seed, path)
    /\ SolanaAccount_from_seed_with_path(seed, path).val.public_key
           = SuiAccount_from_seed_with_path(seed, path).val.public_key

\* the codec half of the same comparison
C15_CodecWitness ==
    /\ epc = "done"
    /\ hrp = Chars("suiprivkey")
    /\ Len(data) = 33
    /\ encoded = encode_sui_bech32(hrp, data)

====
